---- MODULE Spec2Model ----
(***************************************************************************)
(* Model of the session registry of the backend: class WebSocketManager    *)
(* of src/backend/websocket_manager.py.                                    *)
(*                                                                         *)
(* The manager runs on one asyncio event loop.  A coroutine runs without   *)
(* interruption up to its next suspension (an await that really waits), so *)
(* every action below is the code between two suspensions of one task.     *)
(* The tasks are: request handlers that call connect, disconnect,          *)
(* send_message / send_progress / send_error and handle_message; one       *)
(* heartbeat task (_send_pings) per connect call; the sweep task           *)
(* (start_ping_checker).                                                   *)
(*                                                                         *)
(* The transport handle is a starlette WebSocket.  Its application state   *)
(* is what the manager can observe of it: accept() makes it "connected",   *)
(* close() makes it "disconnected" at the moment it is called, and a send  *)
(* or close on a disconnected handle raises RuntimeError.                  *)
(*                                                                         *)
(* Further components, each with a specification of its own:               *)
(*   SpecTqdm    TqdmProgressWrapper (src/backend/websocket_manager.py)    *)
(*   SpecStream  StreamProcessor, transcribe_stream                        *)
(*               (src/backend/streaming.py)                                *)
(*   SpecWorker  RealTimeTranscriber: audio callback and worker thread     *)
(*               (src/transcribe_enhanced.py)                              *)
(*   SpecEngine  transcribe_audio (src/backend/transcription.py) on the    *)
(*               event loop of the WebSocketManager                        *)
(*   SpecMac     MacWhisperTranscriber: audio_callback and the             *)
(*               process_audio threads (src/whisperer.py)                  *)
(*   SpecRealtime AudioProcessor, TaskManager and WhisperModel as          *)
(*               src/main.py combines them (src/realtime_transcription)    *)
(*   SpecConfig  ConfigManager                                             *)
(*               (src/realtime_transcription/config/config_manager.py)     *)
(***************************************************************************)
EXTENDS Integers, Sequences, FiniteSets, TLC

\* ---- program constants (WebSocketManager.__init__) ----
ping_interval == 30
pong_timeout == 15
cleanup_interval == 60

\* ---- bounds of the model ----
MaxTicks == 8
MaxSockets == 3
NumCallers == 2
MaxCalls == 3

\* The clock advances in steps of the greatest common divisor of the three
\* intervals, which is pong_timeout.
TimeStep == pong_timeout
MaxTime == MaxTicks * TimeStep

Clients == {"c1", "c2"}
Sockets == 1..MaxSockets
NoClient == "-"
NoSocket == 0

Callers == {<<"caller", i>> : i \in 1..NumCallers}
PingTask(k) == <<"ping", k>>
PingTasks == {PingTask(k) : k \in Sockets}
SweepTask == <<"sweep", 0>>
NoTask == <<"none", 0>>
Tasks == Callers \cup PingTasks \cup {SweepTask}

SendKinds == {"text", "progress", "error"}
Messages == {"pong", "other"}

VARIABLES
    now,                 \* datetime.now(), in seconds
    ws,                  \* socket -> application state of the WebSocket
    wsClient,            \* socket -> client id it was passed to connect with
    active_connections,  \* the dict, in insertion order: records
                         \*   [client_id, websocket, last_pong, ping_task]
    lockHolder,          \* self.lock: the task inside "async with self.lock"
    lockWaiters,         \* self.lock._waiters, FIFO
    pc,                  \* task -> where the task is suspended
    loc,                 \* task -> its local variables
    stale_clients,       \* local list of the sweep task
    calls,               \* number of calls the request handlers have made
    removed,             \* history: sockets whose entry disconnect deleted
    scanAge,             \* history: socket -> age of last_pong at the last scan
    lastEvent,           \* history: what the latest step did
    \* -- TqdmProgressWrapper (one use of the wrapper as a context) --
    tq_total,            \* self.total (NoTotal for None)
    tq_current,          \* self.current
    tq_loop,             \* whether self.loop is set
    tq_phase,            \* "body": inside the with block, "exited": after it
    tq_raised,           \* whether the body left the with block by an exception
    tq_events,           \* the send_progress calls handed to the loop, in order
    \* -- StreamProcessor (src/backend/streaming.py) --
    sp_buffer,           \* self.buffer: the frames held, by their arrival number
    sp_is_speaking,      \* self.is_speaking
    sp_fed,              \* history: what the VAD said of each frame fed so far
    sp_engine,           \* history: the calls of mlx_whisper.transcribe
    sp_aborted,          \* the input stream was aborted by an exception
    sp_context,          \* self.speech_context, as a sequence of tokens
    \* -- RealTimeTranscriber (src/transcribe_enhanced.py) --
    rt_audio_queue,      \* self.audio_queue: the chunks not yet taken
    rt_chunks,           \* local list "chunks" of the worker
    rt_worker,           \* the worker thread: "running" or "dead"
    rt_delivered,        \* history: number of chunks the callback has queued
    rt_engine,           \* history: the calls of self.model.transcribe
    rt_classified,       \* history: samples of buffers _is_speech said yes to
    \* -- transcribe_audio (src/backend/transcription.py) --
    eng_state,           \* "running" while mlx_whisper.transcribe is executing
    eng_client,          \* client_id of the transcribe_audio call
    eng_scheduled,       \* send_progress coroutines handed to the loop, not started
    \* -- MacWhisperTranscriber (src/whisperer.py, src/macos_whisper.py) --
    mw_audio_buffer,     \* self.audio_buffer: deque(maxlen=buffer_size)
    mw_lock,             \* self.process_lock: the thread that holds it
    mw_cb,               \* the capture thread: where it is, the block it carries
    mw_pc,               \* process_audio thread -> where it is
    mw_snap,             \* process_audio thread -> its local audio_data
    mw_spawned,          \* number of process_audio threads started
    mw_timed,            \* self.last_processed_time has been set
    mw_last_text,        \* self.last_text
    mw_captured,         \* history: every sample captured, in capture order
    mw_results,          \* history: the transcriptions printed, in order
    \* realtime_transcription: AudioProcessor
    ap_is_recording,     \* self.is_recording
    ap_stream,           \* self.stream: the stream held, or NoStream
    ap_callback,         \* self.callback is set
    ap_created,          \* number of sd.InputStream objects constructed
    ap_active,           \* the streams started and not stopped
    ap_stops,            \* stream -> number of stop() calls on it
    ap_closes,           \* stream -> number of close() calls on it
    ap_delivered,        \* number of blocks the streams have delivered
    ap_last,             \* history: the last start/stop call, the state before it
    ap_last2,            \* history: the start/stop call before that one
    \* realtime_transcription: TaskManager with its WhisperModel
    tm_model,            \* WhisperModel.model is set
    tm_last,             \* history: the last call and how it ended
    \* realtime_transcription: ConfigManager
    cf_file,             \* input: what json.load gives for the config file
    cf_config,           \* self.config
    cf_phase,            \* "new", "loaded", "changed"
    cf_handle,           \* the dictionary get_task_config returned last
    cf_before,           \* history: self.config when get_task_config returned
    cf_mods              \* number of set calls and of changes by the caller

netVars == <<now, ws, wsClient, active_connections, lockHolder, lockWaiters,
             pc, loc, stale_clients, calls, removed, scanAge, lastEvent>>

tqVars == <<tq_total, tq_current, tq_loop, tq_phase, tq_raised, tq_events>>

spVars == <<sp_buffer, sp_is_speaking, sp_fed, sp_engine, sp_aborted, sp_context>>

rtVars == <<rt_audio_queue, rt_chunks, rt_worker, rt_delivered, rt_engine,
            rt_classified>>

engVars == <<eng_state, eng_client, eng_scheduled>>

mwVars == <<mw_audio_buffer, mw_lock, mw_cb, mw_pc, mw_snap, mw_spawned,
            mw_timed, mw_last_text, mw_captured, mw_results>>

apVars == <<ap_is_recording, ap_stream, ap_callback, ap_created, ap_active,
            ap_stops, ap_closes, ap_delivered, ap_last, ap_last2>>
tmVars == <<tm_model, tm_last>>
cfVars == <<cf_file, cf_config, cf_phase, cf_handle, cf_before, cf_mods>>
vars == <<netVars, tqVars, spVars, rtVars, engVars, mwVars, apVars, tmVars, cfVars>>

\* ---- helpers ----
Ev(type, task, client, sock, kind) ==
    [type |-> type, task |-> task, client |-> client, sock |-> sock, kind |-> kind]
NoEvent == Ev("none", NoTask, NoClient, NoSocket, "-")

NoLocals == [client_id |-> NoClient, conn |-> NoSocket,
             wake |-> 0, snap |-> <<>>, selfCancel |-> FALSE]

\* client_id in self.active_connections
Registered(c) == \E i \in 1..Len(active_connections) : active_connections[i].client_id = c
IndexOf(c) == CHOOSE i \in 1..Len(active_connections) : active_connections[i].client_id = c
\* self.active_connections[client_id]
Entry(c) == active_connections[IndexOf(c)]
RegisteredSockets == {active_connections[i].websocket : i \in 1..Len(active_connections)}

\* self.active_connections[client_id] = {...}: a dict keeps the position of
\* a key that is already present and appends a new key.
SetItem(conns, e) ==
    IF \E i \in 1..Len(conns) : conns[i].client_id = e.client_id
    THEN [i \in 1..Len(conns) |-> IF conns[i].client_id = e.client_id THEN e ELSE conns[i]]
    ELSE Append(conns, e)

\* del self.active_connections[client_id]
DelItem(conns, c) == SelectSeq(conns, LAMBDA e : e.client_id # c)

\* removal of a cancelled waiter from the lock's queue
RemoveWaiter(q, t) == SelectSeq(q, LAMBDA u : u # t)

\* asyncio.Lock.acquire() returns without suspending only when the lock is
\* free and nobody is queued for it.
CanAcquireNow == lockHolder = NoTask /\ lockWaiters = <<>>

NextUnused == CHOOSE w \in Sockets : ws[w] = "unused" /\ \A v \in Sockets : ws[v] = "unused" => w <= v

Age(e) == now - e.last_pong

NoScan == [w \in Sockets |-> -1]

\* total=None of TqdmProgressWrapper.__init__
NoTotal == -1

\* Request handlers are interchangeable: a new call is run by the first
\* handler that is free.  Client ids are interchangeable: the first call
\* is about "c1".
FirstFree(t) == \A u \in Callers : u[2] < t[2] => pc[u] # "idle"
FirstClient(c) == calls = 0 => c = "c1"

NetInit ==
    /\ now = 0
    /\ ws = [w \in Sockets |-> "unused"]
    /\ wsClient = [w \in Sockets |-> NoClient]
    /\ active_connections = <<>>
    /\ lockHolder = NoTask
    /\ lockWaiters = <<>>
    /\ pc = [t \in Tasks |-> IF t \in Callers THEN "idle" ELSE "none"]
    /\ loc = [t \in Tasks |-> NoLocals]
    /\ stale_clients = <<>>
    /\ calls = 0
    /\ removed = {}
    /\ scanAge = NoScan
    /\ lastEvent = NoEvent

\* no wrapper is in use
TqIdle ==
    /\ tq_total = NoTotal
    /\ tq_current = 0
    /\ tq_loop = FALSE
    /\ tq_phase = "none"
    /\ tq_raised = FALSE
    /\ tq_events = <<>>

\* StreamProcessor.__init__
StreamInit ==
    /\ sp_buffer = <<>>
    /\ sp_is_speaking = FALSE
    /\ sp_fed = <<>>
    /\ sp_engine = <<>>
    /\ sp_aborted = FALSE
    /\ sp_context = <<>>

\* RealTimeTranscriber.__init__ and the start of the worker thread in run()
WorkerInit ==
    /\ rt_audio_queue = <<>>
    /\ rt_chunks = <<>>
    /\ rt_worker = "running"
    /\ rt_delivered = 0
    /\ rt_engine = <<>>
    /\ rt_classified = {}

\* no transcribe_audio call is under way
EngineInit ==
    /\ eng_state = "idle"
    /\ eng_client = NoClient
    /\ eng_scheduled = 0

\* ---- MacWhisperTranscriber: constants and state ----

\* One sample of the model stands for 0.5 s of audio.
mw_sample_rate == 2           \* self.sample_rate, samples per second
mw_buffer_duration == 2       \* self.buffer_duration
buffer_size == mw_sample_rate * mw_buffer_duration

\* bounds: process_audio threads, samples captured, samples in a block
MaxThreads == 2
MaxCaptured == 6
MaxBlockLen == 2

ProcThreads == 1..MaxThreads
CaptureThread == 0
NoThread == -1

CbIdle == [pc |-> "idle", data |-> <<>>]

\* MacWhisperTranscriber.__init__ and the start of run(): running is True,
\* the buffer is empty, last_processed_time is 0.
MacInit ==
    /\ mw_audio_buffer = <<>>
    /\ mw_lock = NoThread
    /\ mw_cb = CbIdle
    /\ mw_pc = [i \in ProcThreads |-> "none"]
    /\ mw_snap = [i \in ProcThreads |-> <<>>]
    /\ mw_spawned = 0
    /\ mw_timed = FALSE
    /\ mw_last_text = <<>>
    /\ mw_captured = <<>>
    /\ mw_results = <<>>

\* bound: streams the AudioProcessor constructs, blocks they deliver
MaxStreams == 2
MaxDelivered == 2

StreamIds == 1..MaxStreams
NoStream == 0

\* what stop_recording can change: the fields of the AudioProcessor and the
\* calls made on its streams
ApState ==
    [is_recording |-> ap_is_recording, stream |-> ap_stream,
     callback |-> ap_callback, stops |-> ap_stops, closes |-> ap_closes]

NoCall == [op |-> "none", before |-> <<>>, failed |-> FALSE]

\* AudioProcessor.__init__
RecorderInit ==
    /\ ap_is_recording = FALSE
    /\ ap_stream = NoStream
    /\ ap_callback = FALSE
    /\ ap_created = 0
    /\ ap_active = {}
    /\ ap_stops = [s \in StreamIds |-> 0]
    /\ ap_closes = [s \in StreamIds |-> 0]
    /\ ap_delivered = 0
    /\ ap_last = NoCall
    /\ ap_last2 = "none"

NoOutcome == [op |-> "none", task |-> "", loaded |-> FALSE, outcome |-> "none"]

\* TaskManager.__init__: one WhisperModel, nothing loaded
TaskInit ==
    /\ tm_model = FALSE
    /\ tm_last = NoOutcome

\* A JSON value: a leaf (string, number, boolean: here a string) or a
\* dictionary, kept as Python keeps it, as the sequence of its items
\* <<key, value>> in insertion order.
L(x) == [kind |-> "leaf", leaf |-> x, items |-> <<>>]
D(items) == [kind |-> "dict", leaf |-> "", items |-> items]
\* None, the default of get
Missing == [kind |-> "none", leaf |-> "", items |-> <<>>]

\* ConfigManager.DEFAULTS
DEFAULTS ==
    D(<< <<"environment", D(<< <<"python_path",
              L("/Users/tinosingh/Documents/whisper_workspace/W3/whisper/bin/python")>> >>)>>,
         <<"tasks", D(<< <<"transcription", D(<< <<"model", L("openai/whisper-base")>>,
                                                 <<"device", L("auto")>> >>)>>,
                         <<"spellcheck", D(<< <<"enabled", L("True")>>,
                                              <<"model", L("t5-base")>> >>)>>,
                         <<"summarization", D(<< <<"enabled", L("True")>>,
                                                 <<"model", L("facebook/bart-large-cnn")>> >>)>> >>)>>,
         <<"audio", D(<< <<"sample_rate", L("16000")>>,
                         <<"chunk_duration_sec", L("3.0")>>,
                         <<"silence_threshold", L("0.03")>> >>)>>,
         <<"debug", D(<< <<"enabled", L("False")>>,
                         <<"log_level", L("INFO")>> >>)>> >>)

\* bound: top-level keys of the config file, set calls and changes made by
\* the caller
MaxFileKeys == 2
MaxMods == 2

\* the top-level items a config file is made of; the first two are the
\* file of the test fixture
FileItems ==
    { <<"environment", D(<< <<"python_path", L("/test/path")>> >>)>>,
      <<"tasks", D(<< <<"transcription", D(<< <<"model", L("test-model")>> >>)>> >>)>>,
      <<"audio", D(<< <<"sample_rate", L("8000")>> >>)>>,
      <<"debug", L("off")>>,
      <<"extra", L("x")>> }

\* the config files: up to MaxFileKeys items with different keys, in any
\* order
FileConfigs ==
    { D(items) : items \in
        { q \in UNION { [1..n -> FileItems] : n \in 0..MaxFileKeys } :
            \A i, j \in 1..Len(q) : i # j => q[i][1] # q[j][1] } }

NoFile == Missing
NoHandle == [kind |-> "none", path |-> <<>>]

\* ConfigManager: before __init__ runs
ConfigInit ==
    /\ cf_file \in FileConfigs \cup {NoFile}
    /\ cf_config = D(<<>>)
    /\ cf_phase = "new"
    /\ cf_handle = NoHandle
    /\ cf_before = D(<<>>)
    /\ cf_mods = 0

\* the components that have no input
ConfigIdle ==
    /\ cf_file = NoFile
    /\ cf_config = D(<<>>)
    /\ cf_phase = "new"
    /\ cf_handle = NoHandle
    /\ cf_before = D(<<>>)
    /\ cf_mods = 0

Init ==
    /\ NetInit
    /\ TqIdle
    /\ StreamInit
    /\ WorkerInit
    /\ EngineInit
    /\ MacInit
    /\ RecorderInit
    /\ TaskInit
    /\ ConfigIdle

\* ---- the lock ----

\* "async with self.lock" when the lock is taken or others are queued: the
\* task is appended to the waiters and suspends.
EnqueueEv(t, l, waitPc, ev) ==
    /\ lockWaiters' = Append(lockWaiters, t)
    /\ pc' = [pc EXCEPT ![t] = waitPc]
    /\ loc' = [loc EXCEPT ![t] = l]
    /\ lastEvent' = ev
    /\ UNCHANGED <<now, ws, wsClient, active_connections, lockHolder,
                   stale_clients, removed, scanAge>>

Enqueue(t, l, waitPc) == EnqueueEv(t, l, waitPc, NoEvent)

\* ---- start_ping_checker: what follows one disconnect of the sweep ----

\* a sweep that ends after every run, whatever is left in the registry
SweepPcAfter_EndsAfterEachRun(conns, rest) ==
    IF rest # <<>> THEN "sw_next" ELSE "none"

\* The "for client_id in stale_clients" loop goes on with the rest of the
\* list; after the last one the run ends: with an empty registry the sweep
\* task cancels itself, sets _cleanup_task to None and breaks, otherwise it
\* sleeps cleanup_interval again.
SweepPcAfter(conns, rest) ==
    IF rest # <<>> THEN "sw_next"
    ELSE IF conns = <<>> THEN "none" ELSE "sleep"

SweepLocAfter(conns, rest) ==
    IF SweepPcAfter(conns, rest) = "sleep"
    THEN [NoLocals EXCEPT !.wake = now + cleanup_interval]
    ELSE NoLocals

\* ---- where a task continues when its disconnect call returns ----
RetPc(t, conns) ==
    IF t \in Callers THEN "idle"
    ELSE IF t \in PingTasks THEN "done"   \* "break" after disconnect
    ELSE SweepPcAfter(conns, Tail(stale_clients))

RetLoc(t, conns) ==
    IF t = SweepTask THEN SweepLocAfter(conns, Tail(stale_clients)) ELSE NoLocals

RetStale(t) == IF t = SweepTask THEN Tail(stale_clients) ELSE stale_clients

\* the history of the scan is kept for the duration of one run of the sweep
RetScanAge(t, conns) ==
    IF t = SweepTask /\ SweepPcAfter(conns, Tail(stale_clients)) # "sw_next"
    THEN NoScan ELSE scanAge

\* ---- disconnect ----

\* websocket.close(): the application state of the handle afterwards
CloseState_Skipped(st) == st

CloseState(st) == "disconnected"

\* disconnect(client_id) without the membership test: the del raises
\* KeyError, which leaves the call; a request handler gets the exception,
\* a heartbeat task or the sweep task dies of it.
DisconnectAbsent_KeyError(t, q, l) ==
    /\ lockHolder' = NoTask
    /\ lockWaiters' = q
    /\ pc' = [pc EXCEPT ![t] = IF t \in Callers THEN "idle"
                                ELSE IF t \in PingTasks THEN "done" ELSE "none"]
    /\ loc' = [loc EXCEPT ![t] = NoLocals]
    /\ stale_clients' = IF t = SweepTask THEN <<>> ELSE stale_clients
    /\ scanAge' = IF t = SweepTask THEN NoScan ELSE scanAge
    /\ lastEvent' = Ev("disc_raised", t, l.client_id, NoSocket, "-")
    /\ UNCHANGED <<now, ws, wsClient, active_connections, removed>>

\* disconnect(client_id) for an id that is not in the dict: the else branch
\* logs a warning, the with block releases the lock, the call returns.
DisconnectAbsent(t, q, l) ==
    /\ lockHolder' = NoTask
    /\ lockWaiters' = q
    /\ pc' = [pc EXCEPT ![t] = RetPc(t, active_connections)]
    /\ loc' = [loc EXCEPT ![t] = RetLoc(t, active_connections)]
    /\ stale_clients' = RetStale(t)
    /\ scanAge' = RetScanAge(t, active_connections)
    /\ lastEvent' = Ev("disc_noop", t, l.client_id, NoSocket, "-")
    /\ UNCHANGED <<now, ws, wsClient, active_connections, removed>>

\* disconnect(client_id), from the moment the task owns the lock up to its
\* first suspension.  q is the queue of the lock without t, l the locals of t.
DisconnectLocked(t, q, l) ==
    LET c == l.client_id IN
    IF ~Registered(c)
    THEN DisconnectAbsent(t, q, l)
    ELSE LET e == Entry(c)
             p == PingTask(e.ping_task)
             running == pc[p] # "done"          \* not ping_task.done()
             other == running /\ p # t
             self == running /\ p = t
             \* ping_task.cancel() of a suspended task ends it: CancelledError
             \* is raised at its await and _send_pings breaks out of its loop
             q2 == IF other THEN RemoveWaiter(q, p) ELSE q
         IN IF ws[e.websocket] = "connected"
            THEN \* await websocket.close(): the handle is disconnected from
                 \* now on, the task waits for the transport
                 /\ lockHolder' = t
                 /\ lockWaiters' = q2
                 /\ ws' = [ws EXCEPT ![e.websocket] = CloseState(@)]
                 /\ pc' = [pc EXCEPT ![p] = IF other THEN "done" ELSE @,
                                     ![t] = "d_close"]
                 /\ loc' = [loc EXCEPT ![p] = IF other THEN NoLocals ELSE @,
                                       ![t] = [l EXCEPT !.conn = e.websocket,
                                                        !.selfCancel = self]]
                 /\ lastEvent' = NoEvent
                 /\ UNCHANGED <<now, wsClient, active_connections,
                                stale_clients, removed, scanAge>>
            ELSE \* close() of a disconnected handle raises RuntimeError at
                 \* once; it is caught and the entry is deleted
                 LET conns == DelItem(active_connections, c) IN
                 /\ lockHolder' = NoTask
                 /\ lockWaiters' = q2
                 /\ active_connections' = conns
                 /\ removed' = removed \cup {e.websocket}
                 /\ pc' = [pc EXCEPT ![p] = IF other THEN "done" ELSE @,
                                     ![t] = RetPc(t, conns)]
                 /\ loc' = [loc EXCEPT ![p] = IF other THEN NoLocals ELSE @,
                                       ![t] = RetLoc(t, conns)]
                 /\ stale_clients' = RetStale(t)
                 /\ scanAge' = RetScanAge(t, conns)
                 /\ lastEvent' = Ev("disc_removed", t, c, e.websocket, "-")
                 /\ UNCHANGED <<now, ws, wsClient>>

\* The await of websocket.close() ends.  A heartbeat task that cancelled
\* itself (ping_task.cancel() on the running task) gets CancelledError at
\* this await if close() really suspended: "except Exception" does not catch
\* it, the lock is released by the with block, the del is skipped and
\* _send_pings leaves through "except asyncio.CancelledError".  If close()
\* returned without suspending, the del is reached.
DisconnectClosed(t, cancelled) ==
    /\ pc[t] = "d_close"
    /\ UNCHANGED calls
    /\ cancelled => loc[t].selfCancel
    /\ LET c == loc[t].client_id IN
       IF cancelled
       THEN /\ lockHolder' = NoTask
            /\ pc' = [pc EXCEPT ![t] = "done"]
            /\ loc' = [loc EXCEPT ![t] = NoLocals]
            /\ lastEvent' = Ev("disc_cancelled", t, c, loc[t].conn, "-")
            /\ UNCHANGED <<now, ws, wsClient, active_connections, lockWaiters,
                           stale_clients, removed, scanAge>>
       ELSE LET conns == DelItem(active_connections, c) IN
            /\ lockHolder' = NoTask
            /\ active_connections' = conns
            /\ removed' = removed \cup {Entry(c).websocket}
            /\ pc' = [pc EXCEPT ![t] = RetPc(t, conns)]
            /\ loc' = [loc EXCEPT ![t] = RetLoc(t, conns)]
            /\ stale_clients' = RetStale(t)
            /\ scanAge' = RetScanAge(t, conns)
            /\ lastEvent' = Ev("disc_removed", t, c, Entry(c).websocket, "-")
            /\ UNCHANGED <<now, ws, wsClient, lockWaiters>>

\* A request handler calls disconnect(c).
CallDisconnect(t, c) ==
    /\ pc[t] = "idle"
    /\ FirstFree(t)
    /\ FirstClient(c)
    /\ calls < MaxCalls
    /\ calls' = calls + 1
    /\ LET l == [NoLocals EXCEPT !.client_id = c] IN
       IF CanAcquireNow THEN DisconnectLocked(t, lockWaiters, l)
       ELSE Enqueue(t, l, "d_lock")

\* ---- connect ----

\* A request handler calls connect(websocket, c) with a fresh handle:
\* "async with self.lock: await websocket.accept()".
CallConnect(t, c) ==
    /\ pc[t] = "idle"
    /\ FirstFree(t)
    /\ FirstClient(c)
    /\ calls < MaxCalls
    /\ calls' = calls + 1
    /\ \E w \in Sockets : ws[w] = "unused"
    /\ LET w == NextUnused
           l == [NoLocals EXCEPT !.client_id = c, !.conn = w]
       IN /\ ws' = [ws EXCEPT ![w] = "connecting"]
          /\ wsClient' = [wsClient EXCEPT ![w] = c]
          /\ loc' = [loc EXCEPT ![t] = l]
          /\ IF CanAcquireNow
             THEN /\ lockHolder' = t
                  /\ pc' = [pc EXCEPT ![t] = "c_accept"]
                  /\ lastEvent' = NoEvent
                  /\ UNCHANGED lockWaiters
             ELSE /\ lockWaiters' = Append(lockWaiters, t)
                  /\ pc' = [pc EXCEPT ![t] = "c_lock"]
                  /\ lastEvent' = NoEvent
                  /\ UNCHANGED lockHolder
          /\ UNCHANGED <<now, active_connections, stale_clients, removed, scanAge>>

\* accept() returned: the with block releases the lock, then (outside the
\* lock, lines 52-68) the heartbeat task is created, the entry is stored
\* under client_id and the sweep task is started if there is none.
ConnectAccepted(t) ==
    /\ UNCHANGED calls
    /\ pc[t] = "c_accept"
    /\ LET c == loc[t].client_id
           w == loc[t].conn
           e == [client_id |-> c, websocket |-> w, last_pong |-> now, ping_task |-> w]
           startSweep == pc[SweepTask] = "none"
       IN /\ ws' = [ws EXCEPT ![w] = "connected"]
          /\ lockHolder' = NoTask
          /\ active_connections' = SetItem(active_connections, e)
          /\ pc' = [pc EXCEPT ![t] = "idle",
                              ![PingTask(w)] = "sleep",
                              ![SweepTask] = IF startSweep THEN "sleep" ELSE @]
          /\ loc' = [loc EXCEPT
                        ![t] = NoLocals,
                        ![PingTask(w)] = [NoLocals EXCEPT !.client_id = c,
                                                          !.wake = now + ping_interval],
                        ![SweepTask] = IF startSweep
                                       THEN [NoLocals EXCEPT !.wake = now + cleanup_interval]
                                       ELSE @]
          /\ lastEvent' = Ev("connected", t, c, w, "-")
          /\ UNCHANGED <<now, wsClient, lockWaiters, stale_clients, removed, scanAge>>

\* accept() raised: the exception leaves connect, the with block releases
\* the lock, nothing is registered.
ConnectFailed(t) ==
    /\ UNCHANGED calls
    /\ pc[t] = "c_accept"
    /\ ws' = [ws EXCEPT ![loc[t].conn] = "disconnected"]
    /\ lockHolder' = NoTask
    /\ pc' = [pc EXCEPT ![t] = "idle"]
    /\ loc' = [loc EXCEPT ![t] = NoLocals]
    /\ lastEvent' = NoEvent
    /\ UNCHANGED <<now, wsClient, active_connections, lockWaiters,
                   stale_clients, removed, scanAge>>

\* ---- send_message / send_progress / send_error ----

\* The three senders have the same shape (lines 107-131, 143-168, 179-202):
\* under the lock, return if the client is unknown, else send on the handle
\* of the entry.
SendLocked(t, q, l) ==
    LET c == l.client_id IN
    IF ~Registered(c)
    THEN /\ lockHolder' = NoTask
         /\ lockWaiters' = q
         /\ pc' = [pc EXCEPT ![t] = "idle"]
         /\ loc' = [loc EXCEPT ![t] = NoLocals]
         /\ lastEvent' = NoEvent
         /\ UNCHANGED <<now, ws, wsClient, active_connections, stale_clients,
                        removed, scanAge>>
    ELSE /\ lockHolder' = t
         /\ lockWaiters' = q
         /\ pc' = [pc EXCEPT ![t] = "s_io"]
         /\ loc' = [loc EXCEPT ![t] = [l EXCEPT !.conn = Entry(c).websocket]]
         /\ lastEvent' = NoEvent
         /\ UNCHANGED <<now, ws, wsClient, active_connections, stale_clients,
                        removed, scanAge>>

CallSend(t, c, kind) ==
    /\ pc[t] = "idle"
    /\ FirstFree(t)
    /\ FirstClient(c)
    /\ calls < MaxCalls
    /\ calls' = calls + 1
    /\ kind \in SendKinds
    /\ LET l == [NoLocals EXCEPT !.client_id = c] IN
       IF CanAcquireNow THEN SendLocked(t, lockWaiters, l)
       ELSE Enqueue(t, l, "s_lock")

\* The await of send_text / send_json ends.  ok is what the transport does;
\* a disconnected handle always raises.  On success the with block releases
\* the lock.  On an exception the handler calls "await self.disconnect(
\* client_id)" inside the with block: the lock is owned by this very task
\* and asyncio.Lock is not reentrant, so the task queues up behind itself.
SendDone(t, ok) ==
    /\ UNCHANGED calls
    /\ pc[t] = "s_io"
    /\ LET w == loc[t].conn
           c == loc[t].client_id
       IN IF ok /\ ws[w] = "connected"
          THEN /\ lockHolder' = NoTask
               /\ pc' = [pc EXCEPT ![t] = "idle"]
               /\ loc' = [loc EXCEPT ![t] = NoLocals]
               /\ lockWaiters' = lockWaiters
               /\ lastEvent' = Ev("sent", t, c, w, "msg")
          ELSE /\ lockHolder' = lockHolder
               /\ lockWaiters' = Append(lockWaiters, t)
               /\ pc' = [pc EXCEPT ![t] = "d_lock"]
               /\ loc' = loc
               /\ lastEvent' = Ev("send_failed", t, c, w, "msg")
    /\ UNCHANGED <<now, ws, wsClient, active_connections, stale_clients,
                   removed, scanAge>>

\* ---- handle_message ----

\* a handler that stamps every entry instead of the sender's
PongUpdate_All(conns, c) ==
    [i \in 1..Len(conns) |-> [conns[i] EXCEPT !.last_pong = now]]

\* conn["last_pong"] = datetime.now() on the entry of client_id
PongUpdate(conns, c) ==
    [i \in 1..Len(conns) |->
        IF conns[i].client_id = c THEN [conns[i] EXCEPT !.last_pong = now]
        ELSE conns[i]]

\* No lock is taken here.  "pong" stores datetime.now() in the entry; any
\* other message is answered through send_message.
HandleMessage(t, c, msg) ==
    /\ pc[t] = "idle"
    /\ FirstFree(t)
    /\ FirstClient(c)
    /\ calls < MaxCalls
    /\ calls' = calls + 1
    /\ IF ~Registered(c)
       THEN /\ lastEvent' = NoEvent
            /\ UNCHANGED <<now, ws, wsClient, active_connections, lockHolder,
                           lockWaiters, pc, loc, stale_clients, removed, scanAge>>
       ELSE IF msg = "pong"
       THEN /\ active_connections' = PongUpdate(active_connections, c)
            /\ lastEvent' = Ev("pong", t, c, Entry(c).websocket, "-")
            /\ UNCHANGED <<now, ws, wsClient, lockHolder, lockWaiters, pc, loc,
                           stale_clients, removed, scanAge>>
       ELSE \* await self.send_message(client_id, f"Server received: {message}")
            LET l == [NoLocals EXCEPT !.client_id = c] IN
            IF CanAcquireNow THEN SendLocked(t, lockWaiters, l)
            ELSE EnqueueEv(t, l, "s_lock",
                           Ev("echo_queued", t, c, Entry(c).websocket, "msg"))

\* ---- _send_pings / _send_ping: the heartbeat task of one connect call ----

\* asyncio.sleep(ping_interval) is over: one tick of the loop, up to its
\* first suspension.
PingWake(k) ==
    LET t == PingTask(k)
        c == loc[t].client_id
    IN /\ pc[t] = "sleep"
       /\ loc[t].wake <= now
       /\ UNCHANGED calls
       /\ IF ~Registered(c)
          THEN \* break
               /\ pc' = [pc EXCEPT ![t] = "done"]
               /\ loc' = [loc EXCEPT ![t] = NoLocals]
               /\ lastEvent' = NoEvent
               /\ UNCHANGED <<now, ws, wsClient, active_connections, lockHolder,
                              lockWaiters, stale_clients, removed, scanAge>>
          ELSE IF Age(Entry(c)) > ping_interval + pong_timeout
          THEN \* await self.disconnect(client_id); break
               IF CanAcquireNow THEN DisconnectLocked(t, lockWaiters, loc[t])
               ELSE Enqueue(t, loc[t], "d_lock")
          ELSE \* await self._send_ping(): iterates over a copy of the items
               \* of the whole dict
               /\ pc' = [pc EXCEPT ![t] = "ping_io"]
               /\ loc' = [loc EXCEPT ![t].snap =
                            [i \in 1..Len(active_connections) |->
                                active_connections[i].websocket]]
               /\ lastEvent' = NoEvent
               /\ UNCHANGED <<now, ws, wsClient, active_connections, lockHolder,
                              lockWaiters, stale_clients, removed, scanAge>>

\* One send_json of the ping round ends; an exception is logged and the
\* round goes on.  After the last one the task sleeps ping_interval.
PingSend(k, ok) ==
    LET t == PingTask(k) IN
    /\ UNCHANGED calls
    /\ pc[t] = "ping_io"
    /\ LET w == Head(loc[t].snap)
           rest == Tail(loc[t].snap)
           delivered == ok /\ ws[w] = "connected"
       IN /\ lastEvent' = Ev(IF delivered THEN "sent" ELSE "ping_failed",
                             t, wsClient[w], w, "ping")
          /\ IF rest = <<>>
             THEN /\ pc' = [pc EXCEPT ![t] = "sleep"]
                  /\ loc' = [loc EXCEPT ![t].snap = <<>>,
                                        ![t].wake = now + ping_interval]
             ELSE /\ pc' = pc
                  /\ loc' = [loc EXCEPT ![t].snap = rest]
    /\ UNCHANGED <<now, ws, wsClient, active_connections, lockHolder,
                   lockWaiters, stale_clients, removed, scanAge>>

\* ---- start_ping_checker: the sweep task ----

\* a scan that uses the threshold of the heartbeat task
StaleClients_HeartbeatThreshold(conns) ==
    LET old == SelectSeq(conns, LAMBDA e : Age(e) > ping_interval + pong_timeout)
    IN [i \in 1..Len(old) |-> old[i].client_id]

\* The client ids whose last_pong is older than the sweep threshold, in the
\* order of the dict.
StaleClients(conns) ==
    LET old == SelectSeq(conns, LAMBDA e : Age(e) > ping_interval * 2 + pong_timeout)
    IN [i \in 1..Len(old) |-> old[i].client_id]

\* asyncio.sleep(cleanup_interval) is over: the scan of the dict.
SweepScan ==
    /\ UNCHANGED calls
    /\ pc[SweepTask] = "sleep"
    /\ loc[SweepTask].wake <= now
    /\ LET st == StaleClients(active_connections) IN
       /\ stale_clients' = st
       /\ pc' = [pc EXCEPT ![SweepTask] = SweepPcAfter(active_connections, st)]
       /\ loc' = [loc EXCEPT ![SweepTask] = SweepLocAfter(active_connections, st)]
    /\ scanAge' = IF StaleClients(active_connections) = <<>> THEN NoScan
                   ELSE [w \in Sockets |->
                           IF w \in RegisteredSockets
                           THEN Age(Entry(wsClient[w])) ELSE -1]
    /\ lastEvent' = Ev("scan", SweepTask, NoClient, NoSocket, "-")
    /\ UNCHANGED <<now, ws, wsClient, active_connections, lockHolder,
                   lockWaiters, removed>>

\* "for client_id in stale_clients: await self.disconnect(client_id)"
SweepNext ==
    /\ UNCHANGED calls
    /\ pc[SweepTask] = "sw_next"
    /\ LET l == [NoLocals EXCEPT !.client_id = Head(stale_clients)] IN
       IF CanAcquireNow THEN DisconnectLocked(SweepTask, lockWaiters, l)
       ELSE Enqueue(SweepTask, l, "d_lock")

\* ---- the lock is handed to the first waiter ----
LockResume(t) ==
    /\ UNCHANGED calls
    /\ lockHolder = NoTask
    /\ lockWaiters # <<>>
    /\ Head(lockWaiters) = t
    /\ LET q == Tail(lockWaiters) IN
       CASE pc[t] = "c_lock" ->
               /\ lockHolder' = t
               /\ lockWaiters' = q
               /\ pc' = [pc EXCEPT ![t] = "c_accept"]
               /\ lastEvent' = NoEvent
               /\ UNCHANGED <<now, ws, wsClient, active_connections, loc,
                              stale_clients, removed, scanAge>>
         [] pc[t] = "s_lock" -> SendLocked(t, q, loc[t])
         [] pc[t] = "d_lock" -> DisconnectLocked(t, q, loc[t])

\* ---- time ----

\* A sleeping task whose time has come runs before the clock moves on, and
\* a transport call (accept, close, send) that is under way and a hand-over
\* of the lock take less than one step of the clock.  A task that waits for
\* a lock that is never released lets the time pass.  Only differences of
\* times matter, so the clock starts with the first connect.
Busy(t) == pc[t] \in {"c_accept", "s_io", "d_close", "ping_io", "sw_next"}

AdvanceTime ==
    /\ UNCHANGED calls
    /\ now + TimeStep <= MaxTime
    /\ \E w \in Sockets : ws[w] # "unused"
    /\ \A t \in Tasks : pc[t] = "sleep" => loc[t].wake > now
    /\ \A t \in Tasks : ~Busy(t)
    /\ ~(lockHolder = NoTask /\ lockWaiters # <<>>)
    /\ now' = now + TimeStep
    /\ lastEvent' = NoEvent
    /\ UNCHANGED <<ws, wsClient, active_connections, lockHolder, lockWaiters,
                   pc, loc, stale_clients, removed, scanAge>>

\* a step of the WebSocketManager leaves the other components alone
OnlyNet == UNCHANGED <<tqVars, spVars, rtVars, engVars, mwVars, apVars, tmVars, cfVars>>

Next ==
    \/ \E t \in Callers, c \in Clients : CallConnect(t, c) /\ OnlyNet
    \/ \E t \in Callers, c \in Clients : CallDisconnect(t, c) /\ OnlyNet
    \/ \E t \in Callers, c \in Clients, kind \in SendKinds : CallSend(t, c, kind) /\ OnlyNet
    \/ \E t \in Callers, c \in Clients, msg \in Messages : HandleMessage(t, c, msg) /\ OnlyNet
    \/ \E t \in Callers : ConnectAccepted(t) /\ OnlyNet
    \/ \E t \in Callers : ConnectFailed(t) /\ OnlyNet
    \/ \E t \in Callers, ok \in BOOLEAN : SendDone(t, ok) /\ OnlyNet
    \/ \E t \in Tasks, cancelled \in BOOLEAN : DisconnectClosed(t, cancelled) /\ OnlyNet
    \/ \E t \in Tasks : LockResume(t) /\ OnlyNet
    \/ \E k \in Sockets : PingWake(k) /\ OnlyNet
    \/ \E k \in Sockets, ok \in BOOLEAN : PingSend(k, ok) /\ OnlyNet
    \/ SweepScan /\ OnlyNet
    \/ SweepNext /\ OnlyNet
    \/ AdvanceTime /\ OnlyNet

Spec == Init /\ [][Next]_vars

\* ---- TqdmProgressWrapper ----

\* bounds of the inputs of one use of the wrapper
MaxTotal == 3
MaxStep == 2
MaxUpdates == 3
\* a total and a step of the size of frame counts
FrameTotal == 200
FrameStep == 150

Totals == {NoTotal} \cup 0..MaxTotal \cup {FrameTotal}
Steps == 1..MaxStep \cup {FrameStep}

Min2(a, b) == IF a <= b THEN a ELSE b
Max2(a, b) == IF a >= b THEN a ELSE b

\* "if self.total" is false for None and for 0
Truthy(total) == total # NoTotal /\ total # 0

\* (self.current / self.total) * 100.0, kept by its integer part: a value
\* is below 0 or above 100 exactly when its integer part is, as long as a
\* value above 100 is at least 101; the clamp maps both the same way.
Percent(current, total) == (current * 100) \div total

\* the value update() passes to send_progress
UpdateProgress(current, total) ==
    LET progress == IF Truthy(total) THEN Min2(100, Percent(current, total)) ELSE 0
    IN Max2(0, Min2(100, progress))

\* the value __exit__ passes to send_progress when the body raised
ErrorProgress(current, total) == current

ProgressEvent(progress, status) == [progress |-> progress, status |-> status]

\* asyncio.run_coroutine_threadsafe(manager.send_progress(...), self.loop)
Submit(events, loopSet, e) == IF loopSet THEN Append(events, e) ELSE events

\* TqdmProgressWrapper(client_id, loop, total) and __enter__
TqdmInit ==
    /\ NetInit
    /\ StreamInit
    /\ WorkerInit
    /\ EngineInit
    /\ MacInit
    /\ RecorderInit
    /\ TaskInit
    /\ ConfigIdle
    /\ tq_total \in Totals
    /\ tq_loop \in BOOLEAN
    /\ tq_current = 0
    /\ tq_phase = "body"
    /\ tq_raised = FALSE
    /\ tq_events = <<>>

\* update(n), called by the body of the with block
TqdmUpdate(n) ==
    /\ tq_phase = "body"
    /\ Len(tq_events) < MaxUpdates
    /\ tq_current < FrameTotal
    /\ tq_current' = tq_current + n
    /\ tq_events' = Submit(tq_events, tq_loop,
                           ProgressEvent(UpdateProgress(tq_current + n, tq_total),
                                         "transcribing"))
    /\ UNCHANGED <<tq_total, tq_loop, tq_phase, tq_raised>>

\* __exit__(exc_type, ...): raised is "exc_type is not None"
TqdmExit(raised) ==
    /\ tq_phase = "body"
    /\ tq_phase' = "exited"
    /\ tq_raised' = raised
    /\ tq_events' =
          IF ~raised /\ Truthy(tq_total)
          THEN Submit(tq_events, tq_loop, ProgressEvent(100, "Completed"))
          ELSE IF raised
          THEN Submit(tq_events, tq_loop,
                      ProgressEvent(ErrorProgress(tq_current, tq_total), "Error"))
          ELSE tq_events
    /\ UNCHANGED <<tq_total, tq_current, tq_loop>>

TqdmNext ==
    \/ \E n \in Steps : TqdmUpdate(n) /\ UNCHANGED <<netVars, spVars, rtVars, engVars, mwVars, apVars, tmVars, cfVars>>
    \/ \E raised \in BOOLEAN : TqdmExit(raised) /\ UNCHANGED <<netVars, spVars, rtVars, engVars, mwVars, apVars, tmVars, cfVars>>

SpecTqdm == TqdmInit /\ [][TqdmNext]_vars

\* ---- StreamProcessor and transcribe_stream (src/backend/streaming.py) ----

\* number of frames (blocks of CHUNK_SIZE seconds) the input stream delivers
MaxFrames == 16

\* one call of the engine: the frames passed, the domain (thread) that made
\* the call, and whether the engine returned
EngineCall(audio, domain, ok) == [audio |-> audio, domain |-> domain, ok |-> ok]

\* result.get("text", ...) of the k-th call of the engine: one token stands
\* for the text
ResultText(k) == <<k>>

\* _process_speech(), called in the given domain: the buffer is
\* concatenated and cleared, then the engine is called; ok is whether
\* mlx_whisper.transcribe returns; the text is then appended to
\* speech_context after a blank.
ProcessSpeech(domain, ok) ==
    /\ sp_engine' = Append(sp_engine, EngineCall(sp_buffer, domain, ok))
    /\ sp_buffer' = <<>>
    /\ sp_context' = IF ok THEN sp_context \o <<" ">> \o ResultText(Len(sp_engine) + 1)
                           ELSE sp_context

\* a process_chunk that buffers the frame before it asks the VAD
ProcessChunk_BufferAll(domain, speech, ok) ==
    LET f == Len(sp_fed) + 1 IN
    /\ sp_fed' = Append(sp_fed, speech)
    /\ IF speech
       THEN /\ sp_buffer' = Append(sp_buffer, f)
            /\ sp_is_speaking' = TRUE
            /\ UNCHANGED <<sp_engine, sp_aborted, sp_context>>
       ELSE IF sp_is_speaking /\ Len(sp_buffer) > 0
       THEN /\ sp_engine' = Append(sp_engine, EngineCall(Append(sp_buffer, f), domain, ok))
            /\ sp_buffer' = <<>>
            /\ sp_is_speaking' = IF ok THEN FALSE ELSE sp_is_speaking
            /\ sp_aborted' = ~ok
            /\ UNCHANGED sp_context
       ELSE /\ sp_is_speaking' = FALSE
            /\ sp_buffer' = Append(sp_buffer, f)
            /\ UNCHANGED <<sp_engine, sp_aborted, sp_context>>

\* process_chunk(audio), called in the given domain; speech is the answer of
\* vad.is_speech for the frame.  When the engine raises, the exception
\* leaves process_chunk before "self.is_speaking = False".
ProcessChunk(domain, speech, ok) ==
    LET f == Len(sp_fed) + 1 IN
    /\ sp_fed' = Append(sp_fed, speech)
    /\ IF speech
       THEN /\ sp_buffer' = Append(sp_buffer, f)
            /\ sp_is_speaking' = TRUE
            /\ UNCHANGED <<sp_engine, sp_aborted, sp_context>>
       ELSE IF sp_is_speaking /\ Len(sp_buffer) > 0
       THEN /\ ProcessSpeech(domain, ok)
            /\ sp_is_speaking' = IF ok THEN FALSE ELSE sp_is_speaking
            /\ sp_aborted' = ~ok
       ELSE /\ sp_is_speaking' = FALSE
            /\ UNCHANGED <<sp_buffer, sp_engine, sp_aborted, sp_context>>

\* The callback that transcribe_stream registers with sd.InputStream: it
\* runs on the audio thread of the stream and calls process_chunk there.
\* An exception that leaves the callback aborts the stream.
StreamCallback(speech, ok) ==
    /\ ~sp_aborted
    /\ Len(sp_fed) < MaxFrames
    /\ ProcessChunk("capture", speech, ok)

StreamNext ==
    \E speech \in BOOLEAN, ok \in BOOLEAN :
        StreamCallback(speech, ok) /\ UNCHANGED <<netVars, tqVars, rtVars, engVars, mwVars, apVars, tmVars, cfVars>>

SpecStream == Init /\ [][StreamNext]_vars

\* ---- RealTimeTranscriber._transcription_worker (src/transcribe_enhanced.py) ----

\* One sample of the model stands for 100 ms of audio (1600 samples at
\* 16 kHz); amplitudes are in hundredths.
rt_sample_rate == 10          \* self.sample_rate, per second
rt_chunk_duration_sec == 1    \* self.chunk_duration_sec
rt_silence_threshold == 1     \* self.silence_threshold = 0.01
LoudAmp == 50
SilentAmp == 0

\* bounds of the input
MaxChunks == 4
ChunkLens == {1, 3, 8}

\* int(0.2 * self.sample_rate)
overlap_samples == (2 * rt_sample_rate) \div 10

\* a sample: its identity (chunk, position in the chunk) and its amplitude
Sample(c, i, amp) == [id |-> <<c, i>>, amp |-> amp]

RECURSIVE Concatenate(_)
\* np.concatenate(chunks)
Concatenate(cs) == IF cs = <<>> THEN <<>> ELSE Head(cs) \o Concatenate(Tail(cs))

\* a[-n:]
LastN(a, n) == IF Len(a) <= n THEN a ELSE SubSeq(a, Len(a) - n + 1, Len(a))

RECURSIVE SumSq(_)
SumSq(a) == IF a = <<>> THEN 0 ELSE Head(a).amp * Head(a).amp + SumSq(Tail(a))

RECURSIVE MaxAbs(_)
MaxAbs(a) == IF a = <<>> THEN 0 ELSE Max2(Head(a).amp, MaxAbs(Tail(a)))

\* _is_speech(audio): sqrt(mean(audio**2)) > max(silence_threshold,
\* 0.02 * abs(audio).max()), compared by the squares
IsSpeech(a) ==
    /\ SumSq(a) > Len(a) * rt_silence_threshold * rt_silence_threshold
    /\ 2500 * SumSq(a) > Len(a) * MaxAbs(a) * MaxAbs(a)

\* len(audio_buffer) >= 1.5 * self.sample_rate * self.chunk_duration_sec
BufferTooLarge(a) == 2 * Len(a) >= 3 * rt_sample_rate * rt_chunk_duration_sec

\* "Keep last 200ms for overlap": what the worker keeps of the chunks of a
\* buffer it passes to the engine
KeepOverlap(cs) ==
    IF Len(cs) > 1 THEN <<LastN(cs[Len(cs)], overlap_samples)>> ELSE <<>>

\* _audio_callback(indata, ...), called by the input stream on its audio
\* thread: the block is copied and appended to the queue.
RtAudioCallback(n, amp) ==
    /\ rt_delivered < MaxChunks
    /\ rt_audio_queue' = Append(rt_audio_queue,
                                [i \in 1..n |-> Sample(rt_delivered + 1, i, amp)])
    /\ rt_delivered' = rt_delivered + 1
    /\ UNCHANGED <<rt_chunks, rt_worker, rt_engine, rt_classified>>

\* One turn of the loop of the worker thread with a chunk in the queue.
\* ok is whether self.model.transcribe returns; an exception of the engine
\* is not an IndexError, so it leaves the loop and ends the thread.
RtWorkerStep(ok) ==
    /\ rt_worker = "running"
    /\ rt_audio_queue # <<>>
    /\ rt_audio_queue' = Tail(rt_audio_queue)
    /\ LET cs == Append(rt_chunks, Head(rt_audio_queue))
           audio_buffer == Concatenate(cs)
       IN /\ rt_classified' = IF IsSpeech(audio_buffer)
                               THEN rt_classified \cup
                                    {audio_buffer[i].id : i \in 1..Len(audio_buffer)}
                               ELSE rt_classified
          /\ IF IsSpeech(audio_buffer) \/ BufferTooLarge(audio_buffer)
             THEN /\ rt_chunks' = KeepOverlap(cs)
                  /\ rt_engine' = Append(rt_engine,
                                          EngineCall(audio_buffer, "worker", ok))
                  /\ rt_worker' = IF ok THEN "running" ELSE "dead"
             ELSE /\ rt_chunks' = cs
                  /\ UNCHANGED <<rt_engine, rt_worker>>
    /\ UNCHANGED rt_delivered

WorkerNext ==
    \/ \E n \in ChunkLens, amp \in {SilentAmp, LoudAmp} :
          RtAudioCallback(n, amp) /\ UNCHANGED <<netVars, tqVars, spVars, engVars, mwVars, apVars, tmVars, cfVars>>
    \/ \E ok \in BOOLEAN :
          RtWorkerStep(ok) /\ UNCHANGED <<netVars, tqVars, spVars, engVars, mwVars, apVars, tmVars, cfVars>>

SpecWorker == Init /\ [][WorkerNext]_vars

\* ---- transcribe_audio (src/backend/transcription.py) ----

\* transcribe_audio is a coroutine without an await: the request handler
\* that awaits it runs load_model and mlx_whisper.transcribe on the thread
\* of the event loop, the one that runs every task of the WebSocketManager.
EngineDomain == "loop"

\* bound on the progress reports of one engine call
MaxScheduled == 1

\* the event loop can run a task
LoopFree == ~(eng_state = "running" /\ EngineDomain = "loop")

\* A request handler awaits transcribe_audio(..., client_id=c): up to the
\* call of mlx_whisper.transcribe under the patched tqdm.
TranscribeStart(t, c) ==
    /\ LoopFree
    /\ eng_client = NoClient
    /\ pc[t] = "idle"
    /\ FirstFree(t)
    /\ FirstClient(c)
    /\ calls < MaxCalls
    /\ calls' = calls + 1
    /\ eng_state' = "running"
    /\ eng_client' = c
    /\ pc' = [pc EXCEPT ![t] = "engine"]
    /\ lastEvent' = NoEvent
    /\ UNCHANGED <<now, ws, wsClient, active_connections, lockHolder, lockWaiters,
                   loc, stale_clients, removed, scanAge, eng_scheduled>>

\* The engine reports progress: TqdmProgressWrapper.update hands a
\* send_progress coroutine to the loop with run_coroutine_threadsafe.
EngineProgress ==
    /\ eng_state = "running"
    /\ eng_scheduled < MaxScheduled
    /\ eng_scheduled' = eng_scheduled + 1
    /\ lastEvent' = NoEvent
    /\ UNCHANGED <<now, ws, wsClient, active_connections, lockHolder, lockWaiters,
                   pc, loc, stale_clients, calls, removed, scanAge,
                   eng_state, eng_client>>

\* inference takes time
EngineTime ==
    /\ eng_state = "running"
    /\ \E w \in Sockets : ws[w] # "unused"
    /\ now + TimeStep <= MaxTime
    /\ now' = now + TimeStep
    /\ lastEvent' = NoEvent
    /\ UNCHANGED <<ws, wsClient, active_connections, lockHolder, lockWaiters,
                   pc, loc, stale_clients, calls, removed, scanAge, engVars>>

\* mlx_whisper.transcribe returns or raises: transcribe_audio returns the
\* result or raises RuntimeError, the handler goes on.
TranscribeEnd(t) ==
    /\ eng_state = "running"
    /\ pc[t] = "engine"
    /\ eng_state' = "idle"
    /\ pc' = [pc EXCEPT ![t] = "idle"]
    /\ lastEvent' = NoEvent
    /\ UNCHANGED <<now, ws, wsClient, active_connections, lockHolder, lockWaiters,
                   loc, stale_clients, calls, removed, scanAge,
                   eng_client, eng_scheduled>>

\* The loop starts a send_progress coroutine that was handed to it.
ScheduledSend(t) ==
    /\ LoopFree
    /\ eng_scheduled > 0
    /\ pc[t] = "idle"
    /\ FirstFree(t)
    /\ eng_scheduled' = eng_scheduled - 1
    /\ UNCHANGED <<calls, eng_state, eng_client>>
    /\ LET l == [NoLocals EXCEPT !.client_id = eng_client] IN
       IF CanAcquireNow THEN SendLocked(t, lockWaiters, l)
       ELSE Enqueue(t, l, "s_lock")

EngineNext ==
    \/ LoopFree /\ OnlyNet /\ \E t \in Callers, c \in Clients : CallConnect(t, c)
    \/ LoopFree /\ OnlyNet /\ \E t \in Callers, c \in Clients : CallDisconnect(t, c)
    \/ LoopFree /\ OnlyNet /\ \E t \in Callers, c \in Clients, kind \in SendKinds : CallSend(t, c, kind)
    \/ LoopFree /\ OnlyNet /\ \E t \in Callers, c \in Clients, msg \in Messages : HandleMessage(t, c, msg)
    \/ LoopFree /\ OnlyNet /\ \E t \in Callers : ConnectAccepted(t)
    \/ LoopFree /\ OnlyNet /\ \E t \in Callers : ConnectFailed(t)
    \/ LoopFree /\ OnlyNet /\ \E t \in Callers, ok \in BOOLEAN : SendDone(t, ok)
    \/ LoopFree /\ OnlyNet /\ \E t \in Tasks, cancelled \in BOOLEAN : DisconnectClosed(t, cancelled)
    \/ LoopFree /\ OnlyNet /\ \E t \in Tasks : LockResume(t)
    \/ LoopFree /\ OnlyNet /\ \E k \in Sockets : PingWake(k)
    \/ LoopFree /\ OnlyNet /\ \E k \in Sockets, ok \in BOOLEAN : PingSend(k, ok)
    \/ LoopFree /\ OnlyNet /\ SweepScan
    \/ LoopFree /\ OnlyNet /\ SweepNext
    \/ LoopFree /\ OnlyNet /\ AdvanceTime
    \/ \E t \in Callers, c \in Clients :
          TranscribeStart(t, c) /\ UNCHANGED <<tqVars, spVars, rtVars, mwVars, apVars, tmVars, cfVars>>
    \/ EngineProgress /\ UNCHANGED <<tqVars, spVars, rtVars, mwVars, apVars, tmVars, cfVars>>
    \/ EngineTime /\ UNCHANGED <<tqVars, spVars, rtVars, mwVars, apVars, tmVars, cfVars>>
    \/ \E t \in Callers : TranscribeEnd(t) /\ UNCHANGED <<tqVars, spVars, rtVars, mwVars, apVars, tmVars, cfVars>>
    \/ \E t \in Callers : ScheduledSend(t) /\ UNCHANGED <<tqVars, spVars, rtVars, mwVars, apVars, tmVars, cfVars>>

SpecEngine == Init /\ [][EngineNext]_vars

\* ---- MacWhisperTranscriber.audio_callback / process_audio ----

\* deque.append on a deque with maxlen that keeps what it has when full
DequeAppend_DropNewest(d, x, maxlen) ==
    IF Len(d) >= maxlen THEN d ELSE Append(d, x)

\* deque.append on a deque with maxlen: when full, the item at the left end
\* is discarded
DequeAppend(d, x, maxlen) ==
    IF Len(d) >= maxlen THEN Append(Tail(d), x) ELSE Append(d, x)

RECURSIVE DequeExtend(_, _, _)
\* deque.extend(items): the items are appended one by one
DequeExtend(d, items, maxlen) ==
    IF items = <<>> THEN d
    ELSE DequeExtend(DequeAppend(d, Head(items), maxlen), Tail(items), maxlen)

\* buffer_len < self.sample_rate * 0.5
BufferTooSmall(d) == 2 * Len(d) < mw_sample_rate

\* np.max(np.abs(audio_data)) < 0.001
Silent(a) == \A i \in 1..Len(a) : ~a[i].loud

\* the lock after "audio_data = np.array(...)" with the lock kept for the
\* rest of process_audio
LockAfterCopy_Held(i) == i

\* the with block of process_audio ends after the copy of the buffer: the
\* lock is free again
LockAfterCopy(i) == NoThread

\* The input stream calls audio_callback(indata, ...) with a block of n
\* samples: up to "with self.process_lock".
AudioCallbackEnter(n, loud) ==
    /\ mw_cb.pc = "idle"
    /\ Len(mw_captured) + n <= MaxCaptured
    /\ mw_cb' = [pc |-> "lock",
                 data |-> [k \in 1..n |-> [id |-> Len(mw_captured) + k, loud |-> loud]]]
    /\ mw_captured' = mw_captured \o
                        [k \in 1..n |-> [id |-> Len(mw_captured) + k, loud |-> loud]]
    /\ UNCHANGED <<mw_audio_buffer, mw_lock, mw_pc, mw_snap, mw_spawned,
                   mw_timed, mw_last_text, mw_results>>

\* the capture thread gets the lock
AudioCallbackAcquire ==
    /\ mw_cb.pc = "lock"
    /\ mw_lock = NoThread
    /\ mw_lock' = CaptureThread
    /\ mw_cb' = [mw_cb EXCEPT !.pc = "locked"]
    /\ UNCHANGED <<mw_audio_buffer, mw_pc, mw_snap, mw_spawned, mw_timed,
                   mw_last_text, mw_captured, mw_results>>

\* The block is added to the buffer and the lock released; then, when
\* process_interval has passed since last_processed_time (elapsed: what the
\* reading of time.time() says; always so the first time, since
\* last_processed_time starts at 0), a process_audio thread is started.
AudioCallbackExtend(elapsed) ==
    /\ mw_cb.pc = "locked"
    /\ mw_audio_buffer' = DequeExtend(mw_audio_buffer, mw_cb.data, buffer_size)
    /\ mw_lock' = NoThread
    /\ mw_cb' = CbIdle
    /\ IF (elapsed \/ ~mw_timed) /\ mw_spawned < MaxThreads
       THEN /\ mw_timed' = TRUE
            /\ mw_spawned' = mw_spawned + 1
            /\ mw_pc' = [mw_pc EXCEPT ![mw_spawned + 1] = "started"]
       ELSE UNCHANGED <<mw_timed, mw_spawned, mw_pc>>
    /\ UNCHANGED <<mw_snap, mw_last_text, mw_captured, mw_results>>

\* process_audio on its own thread: self.running holds, the thread gets the
\* lock
ProcessAcquire(i) ==
    /\ mw_pc[i] = "started"
    /\ mw_lock = NoThread
    /\ mw_lock' = i
    /\ mw_pc' = [mw_pc EXCEPT ![i] = "locked"]
    /\ UNCHANGED <<mw_audio_buffer, mw_cb, mw_snap, mw_spawned, mw_timed,
                   mw_last_text, mw_captured, mw_results>>

\* Under the lock: return when the buffer is shorter than 0.5 s, else copy
\* it.  After the with block: return when the copy is silent, else call the
\* engine.
ProcessCopy(i) ==
    /\ mw_pc[i] = "locked"
    /\ IF BufferTooSmall(mw_audio_buffer)
       THEN /\ mw_lock' = NoThread
            /\ mw_pc' = [mw_pc EXCEPT ![i] = "done"]
            /\ UNCHANGED mw_snap
       ELSE /\ mw_lock' = LockAfterCopy(i)
            /\ mw_snap' = [mw_snap EXCEPT ![i] = IF Silent(mw_audio_buffer)
                                                  THEN <<>> ELSE mw_audio_buffer]
            /\ mw_pc' = [mw_pc EXCEPT ![i] = IF Silent(mw_audio_buffer)
                                              THEN "done" ELSE "engine"]
    /\ UNCHANGED <<mw_audio_buffer, mw_cb, mw_spawned, mw_timed,
                   mw_last_text, mw_captured, mw_results>>

\* The engine returns (ok) or raises.  The text of a copy is written as the
\* copy itself; it is printed when it differs from last_text.
ProcessTranscribed(i, ok) ==
    /\ mw_pc[i] = "engine"
    /\ mw_pc' = [mw_pc EXCEPT ![i] = "done"]
    /\ mw_snap' = [mw_snap EXCEPT ![i] = <<>>]
    /\ IF ok /\ mw_snap[i] # mw_last_text
       THEN /\ mw_results' = Append(mw_results, mw_snap[i])
            /\ mw_last_text' = mw_snap[i]
       ELSE UNCHANGED <<mw_results, mw_last_text>>
    /\ UNCHANGED <<mw_audio_buffer, mw_lock, mw_cb, mw_spawned,
                   mw_timed, mw_captured>>

OnlyMac == UNCHANGED <<netVars, tqVars, spVars, rtVars, engVars, apVars, tmVars, cfVars>>

MacNext ==
    \/ \E n \in 1..MaxBlockLen, loud \in BOOLEAN : AudioCallbackEnter(n, loud) /\ OnlyMac
    \/ AudioCallbackAcquire /\ OnlyMac
    \/ \E elapsed \in BOOLEAN : AudioCallbackExtend(elapsed) /\ OnlyMac
    \/ \E i \in ProcThreads : ProcessAcquire(i) /\ OnlyMac
    \/ \E i \in ProcThreads : ProcessCopy(i) /\ OnlyMac
    \/ \E i \in ProcThreads, ok \in BOOLEAN : ProcessTranscribed(i, ok) /\ OnlyMac

SpecMac == Init /\ [][MacNext]_vars

\* ---- realtime_transcription: AudioProcessor, TaskManager, WhisperModel ----

\* TASK_MODELS: the tasks _initialize_models creates a model object for
TaskNames == {"transcription"}

\* the task names callers pass
TaskInputs == {"transcription", "spellcheck"}

\* WhisperModel.process: without a model it raises ValueError before the
\* try block; an exception of model.transcribe becomes an "error" entry.
WhisperProcessOutcome(loaded, engine_ok) ==
    IF ~loaded THEN "raised"
    ELSE IF engine_ok THEN "result" ELSE "error_value"

\* TaskManager.process: ValueError for a task without model object, else
\* whatever the model's process does
TaskProcessOutcome(task, loaded, engine_ok) ==
    IF task \notin TaskNames THEN "raised"
    ELSE WhisperProcessOutcome(loaded, engine_ok)

Outcome(op, task, outcome) ==
    [op |-> op, task |-> task, loaded |-> tm_model, outcome |-> outcome]

\* TaskManager.load_model(task, name): ok is whether whisper.load_model
\* returns
LoadModel(task, ok) ==
    /\ tm_model' = IF task \in TaskNames /\ ok THEN TRUE ELSE tm_model
    /\ tm_last' = Outcome("load_model", task,
                           IF task \notin TaskNames THEN "raised"
                           ELSE IF ok THEN "true" ELSE "false")
    /\ UNCHANGED apVars

\* TaskManager.process(task, data)
TaskProcess(task, engine_ok) ==
    /\ tm_last' = Outcome("TaskManager.process", task,
                           TaskProcessOutcome(task, tm_model, engine_ok))
    /\ UNCHANGED <<tm_model, apVars>>

\* WhisperModel.process(data)
WhisperProcess(engine_ok) ==
    /\ tm_last' = Outcome("WhisperModel.process", "transcription",
                           WhisperProcessOutcome(tm_model, engine_ok))
    /\ UNCHANGED <<tm_model, apVars>>

\* a stop_recording that keeps the reference to the stream
StreamAfterStop_Kept(s) == s

\* "self.stream = None" at the end of stop_recording
StreamAfterStop(s) == NoStream

\* start_recording(callback): cb is whether a callback is passed, ctor_ok
\* whether sd.InputStream(...) returns, start_ok whether stream.start()
\* returns.
StartRecording(cb, ctor_ok, start_ok) ==
    /\ ap_last' = [op |-> "start", before |-> ApState,
                    \* sd.InputStream(...) or stream.start() raised: the
                    \* exception leaves start_recording
                    failed |-> ~ap_is_recording /\ (~ctor_ok \/ ~start_ok)]
    /\ ap_last2' = ap_last.op
    /\ IF ap_is_recording
       THEN UNCHANGED <<ap_is_recording, ap_stream, ap_callback, ap_created, ap_active>>
       ELSE /\ ap_callback' = cb
            /\ ap_is_recording' = TRUE
            /\ IF ctor_ok
               THEN /\ ap_created < MaxStreams
                    /\ ap_created' = ap_created + 1
                    /\ ap_stream' = ap_created + 1
                    /\ ap_active' = IF start_ok THEN ap_active \cup {ap_created + 1}
                                               ELSE ap_active
               ELSE UNCHANGED <<ap_stream, ap_created, ap_active>>
    /\ UNCHANGED <<ap_stops, ap_closes, ap_delivered, tmVars>>

\* stop_recording()
StopRecording ==
    /\ ap_last' = [op |-> "stop", before |-> ApState, failed |-> FALSE]
    /\ ap_last2' = ap_last.op
    /\ IF ~ap_is_recording
       THEN UNCHANGED <<ap_is_recording, ap_stream, ap_active, ap_stops, ap_closes>>
       ELSE /\ ap_is_recording' = FALSE
            /\ IF ap_stream # NoStream
               THEN /\ ap_stops' = [ap_stops EXCEPT ![ap_stream] = @ + 1]
                    /\ ap_closes' = [ap_closes EXCEPT ![ap_stream] = @ + 1]
                    /\ ap_active' = ap_active \ {ap_stream}
                    /\ ap_stream' = StreamAfterStop(ap_stream)
               ELSE UNCHANGED <<ap_stream, ap_active, ap_stops, ap_closes>>
    /\ UNCHANGED <<ap_callback, ap_created, ap_delivered, tmVars>>

\* _audio_callback(indata, ...) on the audio thread of a started stream:
\* the callback given to start_recording is called with the block; in
\* main.py it is RealtimeTranscriber._audio_callback, which calls
\* task_manager.process("transcription", ...).
RecorderCallback(engine_ok) ==
    /\ ap_active # {}
    /\ ap_delivered < MaxDelivered
    /\ ap_delivered' = ap_delivered + 1
    /\ IF ap_callback
       THEN tm_last' = Outcome("TaskManager.process", "transcription",
                               TaskProcessOutcome("transcription", tm_model, engine_ok))
       ELSE UNCHANGED tm_last
    /\ UNCHANGED <<ap_is_recording, ap_stream, ap_callback, ap_created, ap_active,
                   ap_stops, ap_closes, ap_last, ap_last2, tm_model>>

OnlyRealtime == UNCHANGED <<netVars, tqVars, spVars, rtVars, engVars, mwVars, cfVars>>

RealtimeNext ==
    \/ \E cb \in BOOLEAN, ctor_ok \in BOOLEAN, start_ok \in BOOLEAN :
          StartRecording(cb, ctor_ok, start_ok) /\ OnlyRealtime
    \/ StopRecording /\ OnlyRealtime
    \/ \E engine_ok \in BOOLEAN : RecorderCallback(engine_ok) /\ OnlyRealtime
    \/ \E task \in TaskInputs, ok \in BOOLEAN : LoadModel(task, ok) /\ OnlyRealtime
    \/ \E task \in TaskInputs, engine_ok \in BOOLEAN :
          TaskProcess(task, engine_ok) /\ OnlyRealtime
    \/ \E engine_ok \in BOOLEAN : WhisperProcess(engine_ok) /\ OnlyRealtime

SpecRealtime == Init /\ [][RealtimeNext]_vars

\* ---- realtime_transcription: ConfigManager ----

\* key in d
HasKey(d, k) == \E i \in 1..Len(d.items) : d.items[i][1] = k

\* d[key]
Lookup(d, k) == d.items[CHOOSE i \in 1..Len(d.items) : d.items[i][1] = k][2]

\* d[key] = value
Assign(d, k, v) ==
    IF HasKey(d, k)
    THEN D([i \in 1..Len(d.items) |->
               IF d.items[i][1] = k THEN <<k, v>> ELSE d.items[i]])
    ELSE D(Append(d.items, <<k, v>>))

RECURSIVE MergeItems(_, _)
\* _merge_configs(new_config), config being self.config: for a key whose
\* values are dictionaries on both sides the method calls itself with the
\* value, and that call again works on self.config.
MergeItems(config, items) ==
    IF items = <<>> THEN config
    ELSE LET k == Head(items)[1]
             v == Head(items)[2]
             merged == IF HasKey(config, k) /\ Lookup(config, k).kind = "dict"
                           /\ v.kind = "dict"
                       THEN MergeItems(config, v.items)
                       ELSE Assign(config, k, v)
         IN MergeItems(merged, Tail(items))

RECURSIVE GetPath(_, _)
\* get(key): value[k] for each part of the dotted key; KeyError and
\* TypeError give the default, None
GetPath(value, keys) ==
    IF keys = <<>> THEN value
    ELSE IF value.kind = "dict" /\ HasKey(value, Head(keys))
    THEN GetPath(Lookup(value, Head(keys)), Tail(keys))
    ELSE Missing

RECURSIVE SetPath(_, _, _)
\* set(key, value), and an assignment through a reference to a dictionary
\* inside self.config
SetPath(d, keys, v) ==
    IF Len(keys) = 1 THEN Assign(d, Head(keys), v)
    ELSE LET k == Head(keys)
             sub == IF HasKey(d, k) /\ Lookup(d, k).kind = "dict"
                    THEN Lookup(d, k) ELSE D(<<>>)
         IN Assign(d, k, SetPath(sub, Tail(keys), v))

\* get_task_config(task): self.config.get("tasks", {}).get(task, {}): the
\* dictionary inside self.config itself when there is one, else a new one
TaskConfigHandle(config, task) ==
    IF GetPath(config, <<"tasks", task>>).kind = "dict"
    THEN [kind |-> "alias", path |-> <<"tasks", task>>]
    ELSE [kind |-> "fresh", path |-> <<>>]

\* ConfigManager(config_path): the defaults, then the file merged in when
\* there is one and json.load can read it
ManagerInit(readable) ==
    /\ cf_phase = "new"
    /\ cf_phase' = "loaded"
    /\ cf_file' = IF readable THEN cf_file ELSE NoFile
    /\ cf_config' = IF readable /\ cf_file # NoFile
                     THEN MergeItems(DEFAULTS, cf_file.items)
                     ELSE DEFAULTS
    /\ UNCHANGED <<cf_handle, cf_before, cf_mods>>

\* the dotted keys given to set
SetKeys == { <<"tasks", "transcription", "device">>, <<"audio", "sample_rate">>,
             <<"extra", "k">> }

\* set(key, value), before any dictionary was handed out
SetValue(keys, x) ==
    /\ cf_phase \in {"loaded", "changed"}
    /\ cf_handle = NoHandle
    /\ cf_mods < MaxMods
    /\ cf_mods' = cf_mods + 1
    /\ cf_phase' = "changed"
    /\ cf_config' = SetPath(cf_config, keys, L(x))
    /\ UNCHANGED <<cf_file, cf_handle, cf_before>>

\* task_config = get_task_config(task)
GetTaskConfig(task) ==
    /\ cf_phase \in {"loaded", "changed"}
    /\ cf_handle = NoHandle
    /\ cf_handle' = TaskConfigHandle(cf_config, task)
    /\ cf_before' = cf_config
    /\ UNCHANGED <<cf_file, cf_config, cf_phase, cf_mods>>

\* task_config[key] = value, done by the caller on what it was given
ModifyReturned(k, x) ==
    /\ cf_handle # NoHandle
    /\ cf_mods < MaxMods
    /\ cf_mods' = cf_mods + 1
    /\ cf_phase' = "changed"
    /\ cf_config' = IF cf_handle.kind = "alias"
                     THEN SetPath(cf_config, Append(cf_handle.path, k), L(x))
                     ELSE cf_config
    /\ UNCHANGED <<cf_file, cf_handle, cf_before>>

OnlyConfig == UNCHANGED <<netVars, tqVars, spVars, rtVars, engVars, mwVars, apVars, tmVars>>

ConfigNext ==
    \/ \E readable \in BOOLEAN : ManagerInit(readable) /\ OnlyConfig
    \/ \E keys \in SetKeys, x \in {"v1", "v2"} : SetValue(keys, x) /\ OnlyConfig
    \/ \E task \in {"transcription", "spellcheck", "translation"} :
          GetTaskConfig(task) /\ OnlyConfig
    \/ \E k \in {"model", "beam"}, x \in {"new-model"} : ModifyReturned(k, x) /\ OnlyConfig

ConfigSpecInit ==
    /\ NetInit
    /\ TqIdle
    /\ StreamInit
    /\ WorkerInit
    /\ EngineInit
    /\ MacInit
    /\ RecorderInit
    /\ TaskInit
    /\ ConfigInit

SpecConfig == ConfigSpecInit /\ [][ConfigNext]_vars

\* ======================== properties ========================

DiscOutcomes == {"disc_noop", "disc_removed", "disc_cancelled", "disc_raised"}

\* a task that waits for the lock it owns itself: the wait never ends
SelfBlocked(t) == pc[t] = "d_lock" /\ lockHolder = t

\* C1: when the transport send inside send_message, send_progress or
\* send_error raises for a session, disconnect of that session is carried
\* out (the call returns, the session is removed, its heartbeat cancelled,
\* its transport closed).  A sender that has to carry out the disconnect is
\* therefore never left waiting for the lock it holds itself, with the
\* session still registered.
C1_SendFailureDisconnects ==
    \A t \in Callers : ~(SelfBlocked(t) /\ Registered(loc[t].client_id))

\* C2: a transport failure on session a affects a only: a call made later
\* that concerns another client b completes, it is never queued behind the
\* failed sender in the queue of a lock that this sender owns and waits for.
C2_OtherSessionsUnaffected ==
    \A t, u \in Tasks :
        ~( /\ SelfBlocked(u)
           /\ t # u
           /\ \E i, j \in 1..Len(lockWaiters) :
                 lockWaiters[i] = u /\ lockWaiters[j] = t /\ i < j
           /\ loc[t].client_id # loc[u].client_id )

\* the step ends a heartbeat tick that found the session overdue
TickEvictEnds ==
    /\ lastEvent'.type \in DiscOutcomes
    /\ lastEvent'.task \in PingTasks

\* the step ends a run of the sweep
SweepRunEnds ==
    /\ pc[SweepTask] \in {"sleep", "sw_next", "d_lock", "d_close"}
    /\ pc'[SweepTask] \in {"sleep", "none"}
    /\ lastEvent'.task = SweepTask

\* C3: a session without a pong for more than ping_interval + pong_timeout
\* is absent from active_connections at the end of the next heartbeat tick
\* or of the next sweep, whichever comes first; in either case it is absent
\* when the heartbeat tick that found it overdue ends.
C3_EvictedByNextTick ==
    [][ TickEvictEnds =>
           \A i \in 1..Len(active_connections') :
               active_connections'[i].client_id # lastEvent'.client
      ]_vars

\* C4: "c1" is connected and never sends a pong (the connect is the only
\* call made): once ping_interval + pong_timeout have passed since the
\* connect, the registry does not contain "c1".
C4_GoneAfterPingIntervalPlusPongTimeout ==
    \A i \in 1..Len(active_connections) :
        (calls = 1 /\ active_connections[i].client_id = "c1")
            => Age(active_connections[i]) < ping_interval + pong_timeout

\* C5: disconnect of an id that is not registered (a second disconnect, or
\* an id never seen) returns normally, closes nothing and leaves
\* active_connections and the heartbeat tasks as they are.
C5_DisconnectIdempotent ==
    [][ (lastEvent'.type \in DiscOutcomes /\ ~Registered(lastEvent'.client))
          => /\ lastEvent'.type = "disc_noop"
             /\ active_connections' = active_connections
             /\ ws' = ws
             /\ removed' = removed
             /\ \A k \in Sockets : pc'[PingTask(k)] = pc[PingTask(k)]
                                     \/ lastEvent'.task = PingTask(k)
             /\ lastEvent'.task \in Callers => pc'[lastEvent'.task] = "idle"
      ]_vars

C5_Witness ==
    /\ lastEvent.type = "disc_noop"
    /\ lastEvent.task \in Callers
    /\ \E w \in removed : wsClient[w] = lastEvent.client

\* C6: a client id has at most one live (accepted, not closed) transport.
C6_OneLiveTransportPerId ==
    \A c \in Clients :
        Cardinality({w \in Sockets : wsClient[w] = c /\ ws[w] = "connected"}) <= 1

\* C7: every change of the session table (insert, remove, last_pong) is
\* made by a task that holds the registry lock.
C7_MutationsUnderLock ==
    [][ active_connections' # active_connections
          => (lockHolder # NoTask /\ lockHolder = lastEvent'.task) ]_vars

\* C8: handle_message(c, "pong") sets last_pong of c to the current time
\* and changes nothing else; and last_pong of a session never decreases.
C8_PongFrameAndMonotone ==
    [][ /\ lastEvent'.type = "pong" =>
            /\ Len(active_connections') = Len(active_connections)
            /\ \A i \in 1..Len(active_connections) :
                 LET a == active_connections[i]
                     b == active_connections'[i]
                 IN /\ b.client_id = a.client_id
                    /\ b.websocket = a.websocket
                    /\ b.ping_task = a.ping_task
                    /\ b.last_pong = IF a.client_id = lastEvent'.client
                                     THEN now ELSE a.last_pong
            /\ UNCHANGED <<now, ws, wsClient, lockHolder, lockWaiters, pc, loc,
                           stale_clients, removed>>
        /\ \A c \in Clients :
             (Registered(c) /\ Registered(c)')
                => Entry(c)'.last_pong >= Entry(c).last_pong
      ]_vars

C8_Witness ==
    /\ lastEvent.type = "pong"
    /\ Len(active_connections) = 2
    /\ \E i, j \in 1..2 : /\ active_connections[i].client_id = lastEvent.client
                          /\ active_connections[i].last_pong = now
                          /\ active_connections[j].last_pong < now

SweepThreshold == 2 * ping_interval + pong_timeout

C10_NoSendAfterRemoval ==
    lastEvent.type = "sent" => lastEvent.sock \notin removed

C10_Witness ==
    /\ lastEvent.type = "ping_failed"
    /\ lastEvent.sock \in removed

\* events of the wrapper with a given status
EventsOf(status) == {i \in 1..Len(tq_events) : tq_events[i].status = status}

\* C12: every progress event the wrapper emits, from update and from
\* __exit__, on success and on failure, carries a percentage within 0..100.
C12_PercentageWithinRange ==
    \A i \in 1..Len(tq_events) :
        tq_events[i].progress >= 0 /\ tq_events[i].progress <= 100

\* C13: for one use of the wrapper as a context: when the body completed
\* without exception exactly one 100% completion event was emitted; when the
\* body raised, one error-status event was emitted instead; never both.
\* (Stated for a wrapper that was given a loop to emit on.)
C13_CompletionXorError ==
    (tq_phase = "exited" /\ tq_loop) =>
        /\ ~tq_raised =>
              /\ Cardinality(EventsOf("Completed")) = 1
              /\ \A i \in EventsOf("Completed") : tq_events[i].progress = 100
              /\ EventsOf("Error") = {}
        /\ tq_raised =>
              /\ Cardinality(EventsOf("Error")) = 1
              /\ EventsOf("Completed") = {}

\* the frames fed so far are silence* speech+ silence+, the speech being the
\* frames i+1..j
SilenceSpeechSilence(i, j) ==
    /\ 0 <= i /\ i < j /\ j < Len(sp_fed)
    /\ \A k \in 1..Len(sp_fed) : sp_fed[k] <=> (i < k /\ k <= j)

\* C14: after frames of silence, then a run of speech frames, then silence,
\* the engine has been invoked exactly once, with exactly the speech frames
\* of the run in arrival order (no silent frame, no frame twice).
C14_OneSegmentPerSpeechRun ==
    \A i, j \in 0..Len(sp_fed) :
        SilenceSpeechSilence(i, j) =>
            /\ Len(sp_engine) = 1
            /\ sp_engine[1].audio = [k \in 1..(j - i) |-> i + k]

\* 5 s of silence, 2 s of speech, 1 s of silence in frames of 0.5 s
C14_Witness ==
    /\ Len(sp_fed) = 16
    /\ SilenceSpeechSilence(10, 14)
    /\ Len(sp_engine) = 1
    /\ sp_engine[1].audio = <<11, 12, 13, 14>>

\* maxSegmentDuration in frames; process_chunk has no such limit, any value
\* below MaxFrames shows the same
MaxSegmentFrames == 3

\* C15: while speaking, the segment is sealed and passed to the engine as
\* soon as it has reached maxSegmentDuration, without waiting for a silent
\* frame: the buffer of speech not yet passed to the engine never holds a
\* full maxSegmentDuration when process_chunk returns.
C15_ForceFlushAtMaxDuration ==
    Len(sp_buffer) < MaxSegmentFrames

\* C19: the engine is never invoked from the capture domain (the audio
\* callback of the input stream only hands the frame over).
C19_EngineNotInCaptureDomain ==
    \A i \in 1..Len(sp_engine) : sp_engine[i].domain # "capture"

\* C16: whenever the worker passes a buffer to the engine, the next buffer
\* it passes begins with the last overlap_samples samples of that buffer,
\* however many chunks the buffer had and however long its last chunk was.
C16_NextBufferStartsWithOverlapTail ==
    \A i \in 1..(Len(rt_engine) - 1) :
        LET tail == LastN(rt_engine[i].audio, overlap_samples)
            next == rt_engine[i + 1].audio
        IN /\ Len(next) >= Len(tail)
           /\ SubSeq(next, 1, Len(tail)) = tail

\* C17: audio that was never classified as speech is never part of a buffer
\* passed to the engine (chunks classified as non-speech are discarded).
C17_OnlySpeechReachesEngine ==
    \A i \in 1..Len(rt_engine) :
        \A k \in 1..Len(rt_engine[i].audio) :
            rt_engine[i].audio[k].id \in rt_classified

\* C18: when the engine raises for one segment, the worker keeps running
\* and the next segment is passed to the engine.
C18_WorkerSurvivesEngineFailure ==
    (\E i \in 1..Len(rt_engine) : ~rt_engine[i].ok) => rt_worker = "running"

\* C11: every non-"pong" message that handle_message receives from a
\* registered session is answered by exactly one reply to that session, none
\* is dropped.  Hence the reply to a session whose transport is connected is
\* never left waiting for a lock that will not be released.
C11_UnhandledMessageEchoed ==
    ~( /\ lastEvent.type = "echo_queued"
       /\ ws[lastEvent.sock] = "connected"
       /\ \E u \in Tasks : SelfBlocked(u) )

\* a heartbeat task whose sleep is over
TickDue(k) == pc[PingTask(k)] = "sleep" /\ loc[PingTask(k)].wake <= now

\* C20: while an engine invocation started by transcribe_audio is in
\* progress the network domain keeps running: a heartbeat tick that is due
\* and a progress send handed to the loop can take their step.
C20_NetworkRunsDuringEngine ==
    (eng_state = "running" /\ ((\E k \in Sockets : TickDue(k)) \/ eng_scheduled > 0))
        => LoopFree

\* the position in the capture of the last sample of a transcribed copy
CapturedUpTo(a) == a[Len(a)].id

\* C21: for one capture stream at most one engine invocation is in flight
\* at any time, and the results are delivered in the order in which their
\* audio was captured.
C21_OneInFlightInOrder ==
    /\ Cardinality({i \in ProcThreads : mw_pc[i] = "engine"}) <= 1
    /\ \A j, k \in 1..Len(mw_results) :
          j < k => CapturedUpTo(mw_results[j]) <= CapturedUpTo(mw_results[k])

\* C23: after any sequence of audio_callback invocations the buffer holds
\* at most buffer_size samples, and exactly the most recently captured ones
\* in capture order.
C23_DropOldest ==
    mw_cb.pc = "idle" =>
        /\ Len(mw_audio_buffer) <= buffer_size
        /\ mw_audio_buffer = LastN(mw_captured, buffer_size)

C23_Witness ==
    /\ mw_cb.pc = "idle"
    /\ Len(mw_captured) > buffer_size + 1
    /\ mw_audio_buffer = LastN(mw_captured, buffer_size)

\* C24: process_lock, which the capture callback acquires, is never held by
\* a thread that is inside an engine invocation.
C24_LockNotHeldAcrossEngine ==
    \A i \in ProcThreads : mw_pc[i] = "engine" => mw_lock # i

\* the capture thread is inside its with block while an engine call runs
C24_Witness ==
    /\ mw_lock = CaptureThread
    /\ \E i \in ProcThreads : mw_pc[i] = "engine"

\* a capacity for the hand-off queue smaller than the number of blocks the
\* capture callback delivers
QueueCapacity == MaxChunks - 1

\* C22: the hand-off queue between the capture callback and the worker never
\* holds more than the capacity, however much faster the callback pushes
\* than the worker pops.
C22_QueueWithinCapacity ==
    Len(rt_audio_queue) <= QueueCapacity

\* a maximum length for the rolling text context, in tokens
MaxContextLen == 4

\* C26: the rolling text context of StreamProcessor is bounded: after any
\* number of processed segments its length does not exceed the maximum.
C26_ContextBounded ==
    Len(sp_context) <= MaxContextLen

\* C25: stop_recording is idempotent: after it returns is_recording is
\* false and stream is None, every stream constructed and no longer held was
\* stopped and closed exactly once, and a stop_recording that follows a
\* stop_recording changes nothing and stops or closes nothing.
C25_StopIdempotent ==
    /\ ap_last.op = "stop" => (~ap_is_recording /\ ap_stream = NoStream)
    /\ \A s \in 1..ap_created :
          /\ ap_stops[s] <= 1 /\ ap_closes[s] <= 1
          /\ s # ap_stream => (ap_stops[s] = 1 /\ ap_closes[s] = 1)
    /\ (ap_last.op = "stop" /\ ap_last2 = "stop") => ApState = ap_last.before

\* a second stop_recording after a recording with a stream was stopped
C25_Witness ==
    /\ ap_last.op = "stop"
    /\ ap_last2 = "stop"
    /\ ap_created >= 1
    /\ ap_stops[1] = 1
    /\ ap_closes[1] = 1

\* C29: processing when no model has been loaded ends with a result that
\* has an "error" entry, not with an exception, for TaskManager.process
\* and for WhisperModel.process.
C29_NoModelIsErrorValue ==
    (tm_last.op \in {"TaskManager.process", "WhisperModel.process"} /\ ~tm_last.loaded)
        => tm_last.outcome = "error_value"

RECURSIVE LeafPaths(_)
\* the key paths of a value that lead to a leaf
LeafPaths(value) ==
    IF value.kind # "dict" THEN {<<>>}
    ELSE UNION { { <<value.items[i][1]>> \o q : q \in LeafPaths(value.items[i][2]) } :
                 i \in 1..Len(value.items) }

\* p is the beginning of q
IsPrefix(p, q) == Len(p) <= Len(q) /\ SubSeq(q, 1, Len(p)) = p

\* C27: a ConfigManager initialised from a config file reads back every key
\* path of the file with the file's value, and every default key path the
\* file does not touch with its default value.
C27_FileMergedOverDefaults ==
    (cf_phase = "loaded" /\ cf_file # NoFile) =>
        /\ \A p \in LeafPaths(cf_file) : GetPath(cf_config, p) = GetPath(cf_file, p)
        /\ \A p \in LeafPaths(DEFAULTS) :
              (\A q \in LeafPaths(cf_file) : ~IsPrefix(p, q) /\ ~IsPrefix(q, p))
                  => GetPath(cf_config, p) = GetPath(DEFAULTS, p)

\* C28: what the caller does to the dictionary get_task_config returned
\* never changes what the manager returns afterwards.
C28_TaskConfigIsCopy ==
    cf_handle # NoHandle => cf_config = cf_before

\* C30: when the heartbeat task of a session has called disconnect for its
\* session after a timeout and the task has ended, the transport of the
\* session is closed and the session is not in active_connections.
C30_SelfEvictionCompletes ==
    \A k \in Sockets :
        ( /\ lastEvent.task = PingTask(k)
          /\ lastEvent.type \in {"disc_removed", "disc_cancelled"}
          /\ pc[PingTask(k)] = "done" )
            => /\ ws[lastEvent.sock] # "connected"
               /\ ~Registered(lastEvent.client)

\* the last step was a send_json of a ping round
PingEvent == lastEvent.kind = "ping" /\ lastEvent.type \in {"sent", "ping_failed"}

\* C31: the heartbeat task started for client c sends its liveness probe to
\* c only, never on the transport of a session of another client.
C31_ProbeOnOwnTransportOnly ==
    PingEvent =>
        \E k \in Sockets : lastEvent.task = PingTask(k) /\ wsClient[k] = lastEvent.client

\* C32: when the send of the probe on a session's transport has failed and
\* the heartbeat tick of that session is over, the session is not in
\* active_connections.
C32_FailedProbeDisconnects ==
    ( /\ PingEvent
      /\ lastEvent.type = "ping_failed"
      /\ lastEvent.task = PingTask(lastEvent.sock)
      /\ pc[lastEvent.task] = "sleep" )
        => lastEvent.sock \notin RegisteredSockets

\* a disconnect of client c is under way: its caller waits for close()
Closing(c) == \E t \in Tasks : pc[t] = "d_close" /\ loc[t].client_id = c

\* C33: each session in active_connections has a heartbeat task that has
\* not finished; a session whose disconnect is under way, between the
\* cancel of the task and the del, is not counted.
C33_RegisteredHasLiveHeartbeat ==
    \A i \in 1..Len(active_connections) :
        ~Closing(active_connections[i].client_id)
            => pc[PingTask(active_connections[i].ping_task)] \notin {"done", "none"}

\* C34: while active_connections is not empty the sweep task exists and has
\* not finished; it ends only in a step of its own that leaves the registry
\* empty; a connect starts a sweep task exactly when there is none, and
\* leaves a running one alone.
C34_OneSweepTaskWhileRegistered ==
    [][ /\ active_connections' # <<>> => pc'[SweepTask] # "none"
        /\ (pc[SweepTask] # "none" /\ pc'[SweepTask] = "none")
              => (active_connections' = <<>> /\ lastEvent'.task = SweepTask)
        /\ lastEvent'.type = "connected"
              => IF pc[SweepTask] = "none"
                 THEN /\ pc'[SweepTask] = "sleep"
                      /\ loc'[SweepTask].wake = now + cleanup_interval
                 ELSE /\ pc'[SweepTask] = pc[SweepTask]
                      /\ loc'[SweepTask] = loc[SweepTask]
      ]_vars

\* a connect has started a new sweep task after an earlier one had ended
C34_Witness ==
    /\ lastEvent.type = "connected"
    /\ pc[SweepTask] = "sleep"
    /\ now > cleanup_interval
    /\ now % cleanup_interval # 0
    /\ loc[SweepTask].wake = now + cleanup_interval
    /\ removed # {}

\* the heartbeat task of socket k has decided to evict its session
HeartbeatEvicts(k) ==
    LET t == PingTask(k) IN
    /\ pc[t] \in {"d_lock", "d_close"}
    /\ Registered(loc[t].client_id)
    /\ Entry(loc[t].client_id).websocket = k

\* Every ping sent to the session of socket k so far has been answered at
\* once: no other session exists whose heartbeat task could have sent one,
\* and the last pong recorded (the connect time when no ping was sent yet)
\* is as recent as the last tick of its own heartbeat task.
AllPingsAnswered(k) ==
    LET t == PingTask(k) IN
    /\ \A w \in Sockets \ {k} : ws[w] = "unused"
    /\ Entry(loc[t].client_id).last_pong + ping_interval = loc[t].wake

\* C35: a session whose peer has answered every ping before the next
\* heartbeat tick is not evicted by its heartbeat task, whatever
\* transcriptions run meanwhile.
C35_ResponsivePeerNeverEvicted ==
    \A k \in Sockets : HeartbeatEvicts(k) => ~AllPingsAnswered(k)

\* C36: when opening or starting the input stream fails in start_recording
\* the call leaves the processor not recording, with is_recording false and
\* stream None, so that a later start_recording opens the device again.
C36_FailedStartLeavesNotRecording ==
    (ap_last.op = "start" /\ ap_last.failed)
        => (~ap_is_recording /\ ap_stream = NoStream)

====
